---- MODULE Spec2Model ----
(***************************************************************************)
(* A model of the assignment service (src/src/types.rs, src/src/main.rs):  *)
(* the Input parser, the Substitution rule engine (get_h_value,            *)
(* get_k_value, get_output), the lazily initialised HVALMAP cell and the   *)
(* /api/assignment route closure.                                          *)
(*                                                                         *)
(* Representation choices:                                                 *)
(*   Option<T>      None is <<>>, Some(x) is <<x>>.                        *)
(*   f64            an exact rational <<num, den>> in lowest terms with    *)
(*                  den > 0 (IEEE rounding is not modelled; every formula  *)
(*                  is evaluated with the code's operators in the code's   *)
(*                  order).                                                *)
(*   HashMap<K,V>   a function from the set of inserted keys; its          *)
(*                  iteration order is unspecified, so every iteration     *)
(*                  draws one enumeration of the keys.                     *)
(*   YAML text      the document the text denotes: a syntax error, a       *)
(*                  scalar, a mapping (sequence of <<key, value>> lines)   *)
(*                  or a sequence of values.                               *)
(***************************************************************************)
EXTENDS Integers, Sequences, FiniteSets, TLC

VARIABLES
    HVALMAP,    \* the OnceCell: [state, value]
    initRuns,   \* how many times the get_or_init closure has been started
    stores,     \* how many times a value has been stored into the cell
    last,       \* the most recent call made on the service and what it returned
    ref,        \* an earlier get_output call, remembered for comparison
    text,       \* the text handed to Input::from_str
    parsed,     \* [done, result] of Input::from_str on text
    thr         \* per thread: its position inside get_h_value and its locals

vars == <<HVALMAP, initRuns, stores, last, ref, text, parsed, thr>>

----------------------------------------------------------------------------
(* Option<T> *)

None == <<>>

Some(x) == <<x>>

IsSome(o) == o # <<>>

Unwrap(o) == o[1]

----------------------------------------------------------------------------
(* f64 as exact rationals *)

Abs(n) == IF n < 0 THEN -n ELSE n

RECURSIVE GCD(_, _)
GCD(m, n) == IF n = 0 THEN m ELSE GCD(n, m % n)

\* lowest terms, positive denominator
Norm(n, m) ==
    LET g == GCD(Abs(n), Abs(m))
        s == IF m < 0 THEN -1 ELSE 1
    IN  <<(s * n) \div g, (s * m) \div g>>

\* `x as f64` for an i32 x (exact)
AsF64(i) == <<i, 1>>

FAdd(x, y) == Norm(x[1] * y[2] + y[1] * x[2], x[2] * y[2])

FSub(x, y) == Norm(x[1] * y[2] - y[1] * x[2], x[2] * y[2])

FMul(x, y) == Norm(x[1] * y[1], x[2] * y[2])

\* y is never zero here: the code divides by literals only
FDiv(x, y) == Norm(x[1] * y[2], x[2] * y[1])

----------------------------------------------------------------------------
(* enum HValue, enum Substitution *)

\* declaration order of enum HValue
HValueOrder == <<"M", "P", "T">>

HValue == {"M", "P", "T"}

Substitution == {"Base", "Custom1", "Custom2"}

\* inputs of the model: the boolean triples and a few numeric fields
Triples == BOOLEAN \X BOOLEAN \X BOOLEAN

----------------------------------------------------------------------------
(* HashMap *)

EmptyMap == <<>>

\* HashMap::insert: adds the key or replaces its value
Insert(m, k, v) == [x \in (DOMAIN m) \cup {k} |-> IF x = k THEN v ELSE m[x]]

\* HashMap::get
Get(m, k) == IF k \in DOMAIN m THEN Some(m[k]) ELSE None

\* every order in which `for (k, v) in map` may yield the keys
IterOrders(m) ==
    LET n == Cardinality(DOMAIN m)
    IN  {s \in [1..n -> DOMAIN m] : \A i, j \in 1..n : i # j => s[i] # s[j]}

----------------------------------------------------------------------------
(* HVALMAP initialiser: the closure handed to get_or_init, line by line *)

Line82(m) == Insert(m, "M", <<TRUE, TRUE, FALSE>>)

Line83(m) == Insert(m, "P", <<TRUE, TRUE, TRUE>>)

\* line 84 with P's triple typed again for T
Line84_SameAsP(m) == Insert(m, "T", <<TRUE, TRUE, TRUE>>)

Line84(m) == Insert(m, "T", <<FALSE, TRUE, TRUE>>)

\* the closure with the first Custom2 override left out
Line88_Skipped(m) == m

\* line 88 with P's triple typed for T
Line88_SameAsP(m) == Insert(m, "T", <<TRUE, TRUE, TRUE>>)

Line88(m) == Insert(m, "T", <<TRUE, TRUE, FALSE>>)

\* the closure with the second Custom2 override left out
Line89_Skipped(m) == m

Line89(m) == Insert(m, "M", <<TRUE, FALSE, TRUE>>)

\* the locals of the closure on entry
ClosureStart ==
    [line |-> 80, map |-> EmptyMap, base_map |-> EmptyMap, custom2_map |-> EmptyMap]

\* one statement of the closure; line 93 is its return
ClosureStep(c) ==
    CASE c.line = 80 -> [c EXCEPT !.line = 81, !.map = EmptyMap]
      [] c.line = 81 -> [c EXCEPT !.line = 82, !.base_map = EmptyMap]
      [] c.line = 82 -> [c EXCEPT !.line = 83, !.base_map = Line82(@)]
      [] c.line = 83 -> [c EXCEPT !.line = 84, !.base_map = Line83(@)]
      [] c.line = 84 -> [c EXCEPT !.line = 87, !.base_map = Line84(@)]
      [] c.line = 87 -> [c EXCEPT !.line = 88, !.custom2_map = c.base_map]
      [] c.line = 88 -> [c EXCEPT !.line = 89, !.custom2_map = Line88(@)]
      [] c.line = 89 -> [c EXCEPT !.line = 90, !.custom2_map = Line89(@)]
      [] c.line = 90 -> [c EXCEPT !.line = 92, !.map = Insert(@, "Custom2", c.custom2_map)]
      [] c.line = 92 -> [c EXCEPT !.line = 93, !.map = Insert(@, "Base", c.base_map)]

ClosureLines == {80, 81, 82, 83, 84, 87, 88, 89, 90, 92, 93}

\* the closure run from c to its return value
RECURSIVE RunClosure(_)
RunClosure(c) == IF c.line = 93 THEN c.map ELSE RunClosure(ClosureStep(c))

----------------------------------------------------------------------------
(* OnceCell<HashMap<..>> *)

CellNew == [state |-> "uninit", value |-> None]

CellStates == {"uninit", "running", "complete"}

\* the cell after a finished initialisation stored v
CellStore(v) == [state |-> "complete", value |-> Some(v)]

\* a get_or_init that lets a second caller start the closure while one runs
MayStartInit_Unguarded(cell) == cell.state # "complete"

\* get_or_init: only the caller that finds the cell empty runs the closure
MayStartInit(cell) == cell.state = "uninit"

\* get_or_init returns the stored value once initialisation has completed
MayRead(cell) == cell.state = "complete"

\* get_or_init with no other thread around: run the closure if the cell is empty
GetOrInit(cell) ==
    IF MayRead(cell) THEN cell ELSE CellStore(RunClosure(ClosureStart))

----------------------------------------------------------------------------
(* impl Substitution *)

\* a from_str that also takes the capitalised variant names
Substitution_from_str_Lenient(s) ==
    CASE s \in {"base", "Base"} -> Some("Base")
      [] s \in {"custom1", "Custom1"} -> Some("Custom1")
      [] s \in {"custom2", "Custom2"} -> Some("Custom2")
      [] OTHER -> None

\* Substitution::from_str
Substitution_from_str(s) ==
    CASE s = "base" -> Some("Base")
      [] s = "custom1" -> Some("Custom1")
      [] s = "custom2" -> Some("Custom2")
      [] OTHER -> None

\* line 97: the variant's own table, or Base's
SubstMap(map, self) ==
    LET own == Get(map, self)
    IN  IF IsSome(own) THEN own ELSE Get(map, "Base")

\* lines 99-105: the entries in iteration order, from the i-th on
RECURSIVE FirstMatch(_, _, _, _)
FirstMatch(subst_map, order, i, abc) ==
    IF i > Len(order) THEN None
    ELSE IF subst_map[order[i]] = abc THEN Some(order[i])
    ELSE FirstMatch(subst_map, order, i + 1, abc)

\* how many entries the loop of lines 99-103 looks at
RECURSIVE Examined(_, _, _, _)
Examined(subst_map, order, i, abc) ==
    IF i > Len(order) THEN Len(order)
    ELSE IF subst_map[order[i]] = abc THEN i
    ELSE Examined(subst_map, order, i + 1, abc)

\* get_h_value after get_or_init returned map; order is the iteration order
get_h_value(self, input, map, order) ==
    LET sm == SubstMap(map, self)
    IN  IF sm = None THEN None
        ELSE FirstMatch(Unwrap(sm), order, 1, <<input.a, input.b, input.c>>)

\* get_k_value with the generic arms tried before the overrides
get_k_value_GenericFirst(self, input, value_h) ==
    LET d == input.d
        e == AsF64(input.e)
        f == AsF64(input.f)
    IN  IF value_h = "M" THEN FAdd(d, FDiv(FMul(d, e), <<10, 1>>))
        ELSE IF value_h = "P" THEN FAdd(d, FDiv(FMul(d, FSub(e, f)), <<51, 2>>))
        ELSE FSub(d, FDiv(FMul(d, f), <<30, 1>>))

\* get_k_value: the match arms in source order
get_k_value(self, input, value_h) ==
    LET d == input.d
        e == AsF64(input.e)
        f == AsF64(input.f)
    IN  IF self = "Custom2" /\ value_h = "M"
            THEN FAdd(FAdd(f, d), FDiv(FMul(d, e), <<100, 1>>))
        ELSE IF self = "Custom1" /\ value_h = "P"
            THEN FAdd(FMul(<<2, 1>>, d), FDiv(FMul(d, e), <<100, 1>>))
        ELSE IF value_h = "M" THEN FAdd(d, FDiv(FMul(d, e), <<10, 1>>))
        ELSE IF value_h = "P" THEN FAdd(d, FDiv(FMul(d, FSub(e, f)), <<51, 2>>))
        ELSE FSub(d, FDiv(FMul(d, f), <<30, 1>>))

\* a get_output that computes k for M whatever h is, and never returns None
get_output_Careless(self, input, map, order) ==
    LET h == get_h_value(self, input, map, order)
    IN  [h |-> h, kcalls |-> <<"M">>,
         out |-> Some([h |-> "M", k |-> get_k_value(self, input, "M")])]

\* get_output: h is what get_h_value returned, kcalls the categories
\* get_k_value was called with, out the returned Option<Output>
get_output(self, input, map, order) ==
    LET h == get_h_value(self, input, map, order)
    IN  IF h = None THEN [h |-> h, kcalls |-> <<>>, out |-> None]
        ELSE [h |-> h, kcalls |-> <<Unwrap(h)>>,
              out |-> Some([h |-> Unwrap(h), k |-> get_k_value(self, input, Unwrap(h))])]

\* impl Display for Output: the pieces of "H: {:?}\nK: {}\n"
to_string(output) == <<"H: ", output.h, "\nK: ", output.k, "\n">>

----------------------------------------------------------------------------
(* struct Input and its derived Deserialize; Input::from_str *)

\* the fields of struct Input in declaration order
FieldNames == <<"a", "b", "c", "d", "e", "f">>

\* the declared type of each field
FieldType(field) ==
    CASE field \in {"a", "b", "c"} -> "bool"
      [] field = "d" -> "f64"
      [] field \in {"e", "f"} -> "i32"

ToUpper(s) ==
    CASE s = "a" -> "A" [] s = "b" -> "B" [] s = "c" -> "C"
      [] s = "d" -> "D" [] s = "e" -> "E" [] s = "f" -> "F"
      [] OTHER -> s

\* #[serde(rename_all = "UPPERCASE")]: the name a field has in the text
WireName(field) == ToUpper(field)

\* a key lookup that ignores the case of the key
KeyField_AnyCase(key) ==
    LET hits == {i \in 1..Len(FieldNames) : WireName(FieldNames[i]) = ToUpper(key)}
    IN  IF hits = {} THEN None ELSE Some(FieldNames[CHOOSE i \in hits : TRUE])

\* the derived field identifier: the field whose wire name is exactly key
KeyField(key) ==
    LET hits == {i \in 1..Len(FieldNames) : WireName(FieldNames[i]) = key}
    IN  IF hits = {} THEN None ELSE Some(FieldNames[CHOOSE i \in hits : TRUE])

\* YAML values: a plain true/false (b), an integer that fits i32 (n), a
\* number with a fraction (q), or any other scalar (s)
BoolTok(b) == [kind |-> "bool", b |-> b, n |-> 0, q |-> <<0, 1>>, s |-> ""]

IntTok(n) == [kind |-> "int", b |-> FALSE, n |-> n, q |-> <<0, 1>>, s |-> ""]

FloatTok(q) == [kind |-> "float", b |-> FALSE, n |-> 0, q |-> q, s |-> ""]

StrTok(s) == [kind |-> "str", b |-> FALSE, n |-> 0, q |-> <<0, 1>>, s |-> s]

\* Deserialize for bool, f64 (an integer is accepted and widened) and i32
DeValue(type, tok) ==
    CASE type = "bool" -> IF tok.kind = "bool" THEN Some(tok.b) ELSE None
      [] type = "f64" ->
            IF tok.kind = "float" THEN Some(tok.q)
            ELSE IF tok.kind = "int" THEN Some(AsF64(tok.n))
            ELSE None
      [] type = "i32" -> IF tok.kind = "int" THEN Some(tok.n) ELSE None

\* the struct built from the six collected fields
MakeInput(acc) ==
    [a |-> acc["a"], b |-> acc["b"], c |-> acc["c"],
     d |-> acc["d"], e |-> acc["e"], f |-> acc["f"]]

\* a visitor that fills the fields the text does not give with defaults
Finish_Defaulting(acc) ==
    LET dflt(field) == CASE FieldType(field) = "bool" -> FALSE
                         [] FieldType(field) = "f64" -> <<0, 1>>
                         [] FieldType(field) = "i32" -> 0
        full == [x \in {"a", "b", "c", "d", "e", "f"} |->
                    IF x \in DOMAIN acc THEN acc[x] ELSE dflt(x)]
    IN  Some(MakeInput(full))

\* end of the derived visitor: a field never seen is "missing field"
Finish(acc) ==
    IF \E i \in 1..Len(FieldNames) : FieldNames[i] \notin DOMAIN acc
        THEN None
        ELSE Some(MakeInput(acc))

\* the derived visit_map over the entries from the i-th on: an unknown key
\* is skipped, a repeated field and a value of the wrong type are errors
RECURSIVE VisitMap(_, _, _)
VisitMap(entries, i, acc) ==
    IF i > Len(entries) THEN Finish(acc)
    ELSE LET field == KeyField(entries[i].key)
         IN  IF field = None THEN VisitMap(entries, i + 1, acc)
             ELSE IF Unwrap(field) \in DOMAIN acc THEN None
             ELSE LET val == DeValue(FieldType(Unwrap(field)), entries[i].value)
                  IN  IF val = None THEN None
                      ELSE VisitMap(entries, i + 1, Insert(acc, Unwrap(field), Unwrap(val)))

\* the derived visit_seq: the fields in declaration order, one item each;
\* too few items and items left over are "invalid length"
RECURSIVE VisitSeq(_, _, _)
VisitSeq(items, i, acc) ==
    IF i > Len(FieldNames)
        THEN IF Len(items) > Len(FieldNames) THEN None ELSE Finish(acc)
    ELSE IF i > Len(items) THEN None
    ELSE LET val == DeValue(FieldType(FieldNames[i]), items[i])
         IN  IF val = None THEN None
             ELSE VisitSeq(items, i + 1, Insert(acc, FieldNames[i], Unwrap(val)))

\* Input::from_str: serde_yaml::from_str(s).ok() on the document s denotes
Input_from_str(doc) ==
    CASE doc.form = "mapping" -> VisitMap(doc.body, 1, EmptyMap)
      [] doc.form = "sequence" -> VisitSeq(doc.body, 1, EmptyMap)
      [] OTHER -> None

----------------------------------------------------------------------------
(* the inputs the model draws from *)

\* d ranges over 33.3 and the multiples of 30 up to 30 * MaxD
MaxD == 1

\* a mapping document may carry up to MaxExtra lines after the field lines
MaxExtra == 1

\* threads evaluating concurrently
NumThreads == 2

DValues == {<<333, 10>>} \cup {Norm(30 * i, 1) : i \in 1..MaxD}

EvalInputs ==
    [a : BOOLEAN, b : BOOLEAN, c : BOOLEAN, d : DValues, e : {10}, f : {7}]

\* get_k_value is also called on its own, as the unit tests do
KInputs ==
    [a : {TRUE}, b : {TRUE}, c : {FALSE},
     d : DValues \cup {<<-15, 1>>}, e : {-4, 10}, f : {0, 7}]

Doc(form, body) == [form |-> form, body |-> body]

Entry(key, tok) == [key |-> key, value |-> tok]

NoDoc == Doc("none", <<>>)

\* the values a line of field i may carry: well typed ones, then others
GoodToks(i) ==
    CASE i \in {1, 2, 3} -> {BoolTok(TRUE), BoolTok(FALSE)}
      [] i = 4 -> {FloatTok(<<333, 10>>), IntTok(30)}
      [] i = 5 -> {IntTok(10)}
      [] i = 6 -> {IntTok(7)}

BadToks(i) ==
    CASE i = 1 -> {IntTok(1)}
      [] i = 4 -> {StrTok("abc")}
      [] i = 5 -> {FloatTok(<<21, 2>>)}
      [] i = 6 -> {StrTok("seven")}
      [] OTHER -> {}

\* the line of field i: none, the uppercase key with a value, or the
\* lowercase key with a well typed value
LineOpts(i) ==
    {<<>>}
    \cup {<<Entry(WireName(FieldNames[i]), t)>> : t \in GoodToks(i) \cup BadToks(i)}
    \cup {<<Entry(FieldNames[i], CHOOSE t \in GoodToks(i) : TRUE)>>}

\* lines after the field lines: an unknown key, a repeated A, a lowercase f
ExtraEntries ==
    {Entry("X", IntTok(1)), Entry("A", BoolTok(TRUE)), Entry("f", IntTok(7))}

RECURSIVE Extras(_)
Extras(n) ==
    IF n = 0 THEN {<<>>}
    ELSE LET shorter == Extras(n - 1)
         IN  shorter \cup {Append(x, y) : x \in shorter, y \in ExtraEntries}

MappingDocs ==
    {Doc("mapping", l1 \o l2 \o l3 \o l4 \o l5 \o l6 \o x) :
        l1 \in LineOpts(1), l2 \in LineOpts(2), l3 \in LineOpts(3),
        l4 \in LineOpts(4), l5 \in LineOpts(5), l6 \in LineOpts(6),
        x \in Extras(MaxExtra)}

\* block sequences of five to seven values
SequenceDocs ==
    LET six == {<<t1, t2, t3, t4, t5, t6>> :
                    t1 \in GoodToks(1) \cup BadToks(1), t2 \in {BoolTok(TRUE)},
                    t3 \in GoodToks(3), t4 \in GoodToks(4) \cup BadToks(4),
                    t5 \in GoodToks(5) \cup BadToks(5), t6 \in GoodToks(6)}
    IN  {Doc("sequence", s) : s \in six}
        \cup {Doc("sequence", SubSeq(s, 1, 5)) : s \in six}
        \cup {Doc("sequence", Append(s, IntTok(1))) : s \in six}

\* a text that is no YAML at all, and a bare scalar such as "BAD STRING"
OtherDocs == {Doc("invalid", <<>>), Doc("scalar", <<>>)}

ParseTexts == MappingDocs \cup SequenceDocs \cup OtherDocs

\* the document "A: a\nB: b\nC: c\nD: 33.3\nE: 10\nF: 7\n"; with upper
\* false the six keys are written in lowercase
KeyAs(upper, field) == IF upper THEN ToUpper(field) ELSE field

TestDoc(upper, a, b, c) ==
    Doc("mapping",
        <<Entry(KeyAs(upper, "a"), BoolTok(a)), Entry(KeyAs(upper, "b"), BoolTok(b)),
          Entry(KeyAs(upper, "c"), BoolTok(c)),
          Entry(KeyAs(upper, "d"), FloatTok(<<333, 10>>)),
          Entry(KeyAs(upper, "e"), IntTok(10)), Entry(KeyAs(upper, "f"), IntTok(7))>>)

\* the input blobs sent to the route
RouteTexts ==
    {TestDoc(TRUE, TRUE, b, ~b) : b \in BOOLEAN}
    \cup {TestDoc(FALSE, TRUE, TRUE, FALSE)}
    \cup {Doc("mapping", SubSeq(TestDoc(TRUE, TRUE, TRUE, FALSE).body, 1, 5))}
    \cup {Doc("sequence", <<BoolTok(TRUE), BoolTok(TRUE), BoolTok(TRUE),
                            IntTok(30), IntTok(10), IntTok(7)>>)}
    \cup OtherDocs

\* the substitution names sent to the route
RouteNames == {"base", "custom1", "custom2", "Base", "custom3"}

Threads == 1..NumThreads

\* the triples the concurrent callers ask about
ConcInputs ==
    [a : {TRUE}, b : BOOLEAN, c : BOOLEAN, d : {<<30, 1>>}, e : {10}, f : {7}]

----------------------------------------------------------------------------
(* initial state *)

IdleThread == [pc |-> "idle"]

Init ==
    /\ HVALMAP = CellNew
    /\ initRuns = 0
    /\ stores = 0
    /\ last = [op |-> "none"]
    /\ ref = None
    /\ text = NoDoc
    /\ parsed = [done |-> FALSE, result |-> None]
    /\ thr = [t \in Threads |-> IdleThread]

----------------------------------------------------------------------------
(* the service, one call at a time *)

\* what one get_output call did: its arguments, the iteration order its
\* loop met, whether it ran the initialiser, and its results
Evaluation(self, input, order, cell) ==
    LET r == get_output(self, input, Unwrap(GetOrInit(cell).value), order)
    IN  [self |-> self, input |-> input, order |-> order,
         built |-> ~MayRead(cell), h |-> r.h, kcalls |-> r.kcalls, out |-> r.out]

\* the orders the loop of get_h_value may meet for self
OrdersFor(self, cell) ==
    IterOrders(Unwrap(SubstMap(Unwrap(GetOrInit(cell).value), self)))

Remembered(ev) ==
    Some([self |-> ev.self, input |-> ev.input, out |-> ev.out, built |-> ev.built])

\* the effect of get_or_init on the cell and its counters
Initialised ==
    /\ HVALMAP' = GetOrInit(HVALMAP)
    /\ initRuns' = IF MayRead(HVALMAP) THEN initRuns ELSE initRuns + 1
    /\ stores' = IF MayRead(HVALMAP) THEN stores ELSE stores + 1

\* Substitution::get_output called directly
CallGetOutput(self, input) ==
    \E order \in OrdersFor(self, HVALMAP) :
        LET ev == Evaluation(self, input, order, HVALMAP)
        IN  /\ Initialised
            /\ last' = [op |-> "get_output", eval |-> Some(ev)]
            /\ UNCHANGED <<ref, text, parsed, thr>>

\* Substitution::get_k_value called directly
CallGetKValue(self, input, value_h) ==
    /\ last' = [op |-> "get_k_value", self |-> self, input |-> input,
                value_h |-> value_h, k |-> get_k_value(self, input, value_h)]
    /\ UNCHANGED <<HVALMAP, initRuns, stores, ref, text, parsed, thr>>

\* what the route closure did: the calls it made, whether an unwrap
\* panicked, the body it returned, the get_output call it made
Reply(name, blob, calls, body, eval) ==
    [op |-> "assignment", substitution |-> name, input |-> blob,
     calls |-> calls, panicked |-> (body = None), body |-> body, eval |-> eval]

\* POST /api/assignment: the closure of main.rs lines 20-25
Assignment(name, blob) ==
    LET subst == Substitution_from_str(name)
        input == Input_from_str(blob)
    IN  IF subst = None
            THEN /\ last' = Reply(name, blob, <<"Substitution::from_str">>, None, None)
                 /\ UNCHANGED <<HVALMAP, initRuns, stores, ref, text, parsed, thr>>
        ELSE IF input = None
            THEN /\ last' = Reply(name, blob,
                                  <<"Substitution::from_str", "Input::from_str">>,
                                  None, None)
                 /\ UNCHANGED <<HVALMAP, initRuns, stores, ref, text, parsed, thr>>
        ELSE \E order \in OrdersFor(Unwrap(subst), HVALMAP) :
                LET ev == Evaluation(Unwrap(subst), Unwrap(input), order, HVALMAP)
                    calls == <<"Substitution::from_str", "Input::from_str", "get_output">>
                IN  /\ Initialised
                    /\ last' = IF ev.out = None
                                   THEN Reply(name, blob, calls, None, Some(ev))
                                   ELSE Reply(name, blob, Append(calls, "to_string"),
                                              Some(to_string(Unwrap(ev.out))), Some(ev))
                    /\ UNCHANGED <<ref, text, parsed, thr>>

Next ==
    \/ \E self \in Substitution, input \in EvalInputs : CallGetOutput(self, input)
    \/ \E self \in Substitution, input \in KInputs, value_h \in HValue :
            CallGetKValue(self, input, value_h)
    \/ \E name \in RouteNames, blob \in RouteTexts : Assignment(name, blob)

Spec == Init /\ [][Next]_vars

----------------------------------------------------------------------------
(* repeated get_output calls, one of them kept for comparison *)

\* the observer keeps the call just made
Remember ==
    /\ last.op = "get_output"
    /\ ref' = Remembered(Unwrap(last.eval))
    /\ UNCHANGED <<HVALMAP, initRuns, stores, last, text, parsed, thr>>

RepeatInputs ==
    [a : BOOLEAN, b : BOOLEAN, c : BOOLEAN, d : {<<333, 10>>}, e : {10}, f : {7}]

NextRepeat ==
    \/ \E self \in Substitution, input \in RepeatInputs : CallGetOutput(self, input)
    \/ Remember

SpecRepeat == Init /\ [][NextRepeat]_vars

----------------------------------------------------------------------------
(* Input::from_str as a function of its text *)

InitParse ==
    /\ HVALMAP = CellNew
    /\ initRuns = 0
    /\ stores = 0
    /\ last = [op |-> "none"]
    /\ ref = None
    /\ text \in ParseTexts
    /\ parsed = [done |-> FALSE, result |-> None]
    /\ thr = [t \in Threads |-> IdleThread]

CallInputFromStr ==
    /\ ~parsed.done
    /\ parsed' = [done |-> TRUE, result |-> Input_from_str(text)]
    /\ UNCHANGED <<HVALMAP, initRuns, stores, last, ref, text, thr>>

NextParse == CallInputFromStr

SpecParse == InitParse /\ [][NextParse]_vars

----------------------------------------------------------------------------
(* get_h_value called from several threads *)

\* t enters get_h_value
Enter(t, self, input) ==
    /\ thr[t].pc = "idle"
    /\ thr' = [thr EXCEPT ![t] = [pc |-> "get_or_init", self |-> self, input |-> input]]
    /\ UNCHANGED <<HVALMAP, initRuns, stores, last, ref, text, parsed>>

\* get_or_init finds the cell empty: t is the one to run the closure
StartInit(t) ==
    /\ thr[t].pc = "get_or_init"
    /\ MayStartInit(HVALMAP)
    /\ HVALMAP' = [HVALMAP EXCEPT !.state = "running"]
    /\ initRuns' = initRuns + 1
    /\ thr' = [thr EXCEPT ![t] = [pc |-> "closure", self |-> thr[t].self,
                                  input |-> thr[t].input, c |-> ClosureStart]]
    /\ UNCHANGED <<stores, last, ref, text, parsed>>

\* one statement of the closure, on t's own locals
ClosureLine(t) ==
    /\ thr[t].pc = "closure"
    /\ thr[t].c.line # 93
    /\ thr' = [thr EXCEPT ![t].c = ClosureStep(@)]
    /\ UNCHANGED <<HVALMAP, initRuns, stores, last, ref, text, parsed>>

\* the closure returns: its map is stored and get_or_init returns it
Publish(t) ==
    /\ thr[t].pc = "closure"
    /\ thr[t].c.line = 93
    /\ HVALMAP' = CellStore(thr[t].c.map)
    /\ stores' = stores + 1
    /\ thr' = [thr EXCEPT ![t] = [pc |-> "lookup", self |-> thr[t].self,
                                  input |-> thr[t].input, map |-> Some(thr[t].c.map)]]
    /\ UNCHANGED <<initRuns, last, ref, text, parsed>>

\* get_or_init returns the stored map, at once or after waiting for the
\* thread that runs the closure
Read(t) ==
    /\ thr[t].pc = "get_or_init"
    /\ MayRead(HVALMAP)
    /\ thr' = [thr EXCEPT ![t] = [pc |-> "lookup", self |-> thr[t].self,
                                  input |-> thr[t].input, map |-> HVALMAP.value]]
    /\ UNCHANGED <<HVALMAP, initRuns, stores, last, ref, text, parsed>>

\* lines 97-105 on the map get_or_init returned
Lookup(t) ==
    /\ thr[t].pc = "lookup"
    /\ IsSome(thr[t].map)
    /\ IsSome(SubstMap(Unwrap(thr[t].map), thr[t].self))
    /\ \E order \in IterOrders(Unwrap(SubstMap(Unwrap(thr[t].map), thr[t].self))) :
          thr' = [thr EXCEPT ![t] =
                    [pc |-> "returned", self |-> thr[t].self, input |-> thr[t].input,
                     map |-> thr[t].map,
                     h |-> get_h_value(thr[t].self, thr[t].input,
                                       Unwrap(thr[t].map), order)]]
    /\ UNCHANGED <<HVALMAP, initRuns, stores, last, ref, text, parsed>>

\* the caller drops the result
Leave(t) ==
    /\ thr[t].pc = "returned"
    /\ thr' = [thr EXCEPT ![t] = IdleThread]
    /\ UNCHANGED <<HVALMAP, initRuns, stores, last, ref, text, parsed>>

NextConc ==
    \E t \in Threads :
        \/ \E self \in Substitution, input \in ConcInputs : Enter(t, self, input)
        \/ StartInit(t)
        \/ ClosureLine(t)
        \/ Publish(t)
        \/ Read(t)
        \/ Lookup(t)
        \/ Leave(t)

SpecConc == Init /\ [][NextConc]_vars

----------------------------------------------------------------------------
(* helpers of the properties *)

\* the get_output call made by the most recent operation, if it made one
LastEvals ==
    IF last.op \in {"get_output", "assignment"} /\ IsSome(last.eval)
        THEN {Unwrap(last.eval)}
        ELSE {}

Abc(input) == <<input.a, input.b, input.c>>

\* the category the rule tables of the specification give a triple
ExpectedH(self, abc) ==
    IF self = "Custom2"
        THEN CASE abc = <<TRUE, FALSE, TRUE>> -> Some("M")
               [] abc = <<TRUE, TRUE, TRUE>> -> Some("P")
               [] abc = <<TRUE, TRUE, FALSE>> -> Some("T")
               [] OTHER -> None
        ELSE CASE abc = <<TRUE, TRUE, FALSE>> -> Some("M")
               [] abc = <<TRUE, TRUE, TRUE>> -> Some("P")
               [] abc = <<FALSE, TRUE, TRUE>> -> Some("T")
               [] OTHER -> None

\* the rational k equals num / den
RatIs(k, num, den) == k[2] > 0 /\ k[1] * den = num * k[2]

\* the formula table of the specification, over a common denominator,
\* for d = dn / dd
ExpectedK(self, value_h, dn, dd, e, f, k) ==
    CASE self = "Custom2" /\ value_h = "M" ->
            RatIs(k, 100 * f * dd + 100 * dn + dn * e, 100 * dd)
      [] self = "Custom1" /\ value_h = "P" ->
            RatIs(k, 200 * dn + dn * e, 100 * dd)
      [] value_h = "M" /\ self # "Custom2" -> RatIs(k, 10 * dn + dn * e, 10 * dd)
      [] value_h = "P" /\ self # "Custom1" ->
            RatIs(k, 51 * dn + 2 * dn * (e - f), 51 * dd)
      [] value_h = "T" -> RatIs(k, 30 * dn - dn * f, 30 * dd)

\* the complete rule table: Base and Custom2, each with all three categories
CompleteTable(map) ==
    /\ DOMAIN map = {"Base", "Custom2"}
    /\ \A self \in DOMAIN map : DOMAIN map[self] = HValue

\* the entries of a mapping document written with exactly this key
EntriesOf(doc, key) == {i \in 1..Len(doc.body) : doc.body[i].key = key}

\* a value a field of this type takes
WellTyped(type, tok) ==
    CASE type = "bool" -> tok.kind = "bool"
      [] type = "f64" -> tok.kind \in {"float", "int"}
      [] type = "i32" -> tok.kind = "int"

\* the field value a well typed token stands for
ValueOf(type, tok) ==
    CASE type = "bool" -> tok.b
      [] type = "f64" -> IF tok.kind = "int" THEN <<tok.n, 1>> ELSE tok.q
      [] type = "i32" -> tok.n

\* a mapping that gives each required key A..F once, with a well typed value
SuppliesAllKeys(doc) ==
    /\ doc.form = "mapping"
    /\ \A j \in 1..Len(FieldNames) :
          /\ Cardinality(EntriesOf(doc, ToUpper(FieldNames[j]))) = 1
          /\ \A i \in EntriesOf(doc, ToUpper(FieldNames[j])) :
                WellTyped(FieldType(FieldNames[j]), doc.body[i].value)

\* a sequence of exactly six values, well typed in field order
SuppliesSixValues(doc) ==
    /\ doc.form = "sequence"
    /\ Len(doc.body) = Len(FieldNames)
    /\ \A j \in 1..Len(FieldNames) : WellTyped(FieldType(FieldNames[j]), doc.body[j])

\* the record carries the values the mapping gives under the keys A..F
CarriesKeyed(rec, doc) ==
    \A j \in 1..Len(FieldNames) :
        \A i \in EntriesOf(doc, ToUpper(FieldNames[j])) :
            rec[FieldNames[j]] = ValueOf(FieldType(FieldNames[j]), doc.body[i].value)

\* the record carries the values of the sequence, in field order
CarriesPositional(rec, doc) ==
    \A j \in 1..Len(FieldNames) :
        rec[FieldNames[j]] = ValueOf(FieldType(FieldNames[j]), doc.body[j])

\* the record carries the values of the six lines, in field order
CarriesLines(rec, doc) ==
    \A j \in 1..Len(FieldNames) :
        rec[FieldNames[j]] = ValueOf(FieldType(FieldNames[j]), doc.body[j].value)

\* six lines, one per field, every key in lowercase, every value well typed
AllLowercase(doc) ==
    /\ doc.form = "mapping"
    /\ Len(doc.body) = Len(FieldNames)
    /\ \A j \in 1..Len(FieldNames) :
          /\ doc.body[j].key = FieldNames[j]
          /\ WellTyped(FieldType(FieldNames[j]), doc.body[j].value)

\* the same with every key in uppercase
AllUppercase(doc) ==
    /\ doc.form = "mapping"
    /\ Len(doc.body) = Len(FieldNames)
    /\ \A j \in 1..Len(FieldNames) :
          /\ doc.body[j].key = ToUpper(FieldNames[j])
          /\ WellTyped(FieldType(FieldNames[j]), doc.body[j].value)

----------------------------------------------------------------------------
(* properties *)

C2_ComputeValue ==
    last.op = "get_k_value" =>
        /\ ExpectedK(last.self, last.value_h, last.input.d[1], last.input.d[2],
                     last.input.e, last.input.f, last.k)
        /\ (/\ last.input.d = <<30, 1>> /\ last.input.e = 10 /\ last.input.f = 7
            /\ last.value_h = "M")
           => last.k = (IF last.self = "Custom2" THEN <<40, 1>> ELSE <<60, 1>>)

\* C2 witness: the call of the unit test, (Custom2, M) on d = 30, e = 10,
\* f = 7, returning 40.
C2_Witness ==
    /\ last.op = "get_k_value"
    /\ last.self = "Custom2"
    /\ last.value_h = "M"
    /\ last.input.d = <<30, 1>> /\ last.input.e = 10 /\ last.input.f = 7
    /\ last.k = <<40, 1>>

\* C3: get_output returns None exactly when get_h_value returned None;
\* otherwise its output carries the category get_h_value returned and the
\* k get_k_value gives for that variant, input and category, and
\* get_k_value is called with no other category (and not at all on None).
C3_Evaluate ==
    \A ev \in LastEvals :
        /\ (ev.out = None) <=> (ev.h = None)
        /\ ev.h = None => ev.kcalls = <<>>
        /\ ev.h # None =>
              /\ ev.kcalls = <<Unwrap(ev.h)>>
              /\ Unwrap(ev.out).h = Unwrap(ev.h)
              /\ Unwrap(ev.out).k = get_k_value(ev.self, ev.input, Unwrap(ev.h))
              /\ ExpectedK(ev.self, Unwrap(ev.h), ev.input.d[1], ev.input.d[2],
                           ev.input.e, ev.input.f, Unwrap(ev.out).k)

\* C3 witness: a Custom1 call classified P, whose output carries P and the
\* Custom1 override value.
C3_Witness ==
    \E ev \in LastEvals :
        /\ ev.self = "Custom1"
        /\ ev.h = Some("P")
        /\ ev.out # None
        /\ ev.kcalls = <<"P">>

\* C4 as stated: Input::from_str returns a record if and only if the text
\* is well formed and gives all six required keys with well typed values,
\* and the record then carries those values.
C4_AsStated ==
    parsed.done =>
        /\ IsSome(parsed.result) <=> SuppliesAllKeys(text)
        /\ IsSome(parsed.result) => CarriesKeyed(Unwrap(parsed.result), text)

\* C4: Input::from_str is all or nothing: it returns a record if and only
\* if the text is a mapping giving each of the six keys A..F once with a
\* well typed value, or a sequence of exactly six well typed values in
\* field order; the record then carries exactly the six values given;
\* every other text yields None.
C4_AllOrNothing ==
    parsed.done =>
        /\ IsSome(parsed.result) <=> (SuppliesAllKeys(text) \/ SuppliesSixValues(text))
        /\ SuppliesAllKeys(text) => CarriesKeyed(Unwrap(parsed.result), text)
        /\ SuppliesSixValues(text) => CarriesPositional(Unwrap(parsed.result), text)

\* C4 witness: a mapping with the five lines A..E, all well typed, and no
\* F has been parsed, and the result is None.
C4_Witness ==
    /\ parsed.done
    /\ text.form = "mapping"
    /\ Len(text.body) = 5
    /\ \A j \in 1..5 :
          /\ text.body[j].key = ToUpper(FieldNames[j])
          /\ WellTyped(FieldType(FieldNames[j]), text.body[j].value)
    /\ parsed.result = None

\* C5 as stated: a payload whose six keys are all lowercase, or all
\* uppercase, with well typed values, parses to the record of its values.
C5_AsStated ==
    (parsed.done /\ (AllLowercase(text) \/ AllUppercase(text))) =>
        /\ IsSome(parsed.result)
        /\ CarriesLines(Unwrap(parsed.result), text)

\* C5: the six field names are accepted in uppercase only: a payload with
\* the keys A..F and well typed values parses to the record of its values,
\* and a mapping that gives some field under its lowercase key only
\* does not parse.
C5_UppercaseOnly ==
    parsed.done =>
        /\ AllUppercase(text) =>
              /\ IsSome(parsed.result)
              /\ CarriesLines(Unwrap(parsed.result), text)
        /\ (/\ text.form = "mapping"
            /\ \E j \in 1..Len(FieldNames) :
                  /\ EntriesOf(text, FieldNames[j]) # {}
                  /\ EntriesOf(text, ToUpper(FieldNames[j])) = {})
           => parsed.result = None

\* C5 witness: the all-lowercase payload has been parsed, and the result
\* is None.
C5_Witness ==
    /\ parsed.done
    /\ AllLowercase(text)
    /\ parsed.result = None

\* C6: the route closure returns a body if and only if the variant name is
\* exactly "base", "custom1" or "custom2", the blob parses, and get_output
\* returns an output; the body is that output rendered; otherwise an unwrap
\* panics and there is no body, and on an unrecognized name neither
\* Input::from_str nor get_output is called.
C6_Route ==
    last.op = "assignment" =>
        LET okName == last.substitution \in {"base", "custom1", "custom2"}
            okParse == IsSome(Input_from_str(last.input))
            okEval == IsSome(last.eval) /\ IsSome(Unwrap(last.eval).out)
        IN  /\ IsSome(last.body) <=> (okName /\ okParse /\ okEval)
            /\ last.panicked <=> ~IsSome(last.body)
            /\ IsSome(last.body) =>
                  /\ last.body = Some(to_string(Unwrap(Unwrap(last.eval).out)))
                  /\ Unwrap(last.eval).input = Unwrap(Input_from_str(last.input))
                  /\ Some(Unwrap(last.eval).self) = Substitution_from_str(last.substitution)
            /\ ~okName => (last.calls = <<"Substitution::from_str">> /\ last.eval = None)
            /\ (okName /\ ~okParse) =>
                  (last.calls = <<"Substitution::from_str", "Input::from_str">>
                   /\ last.eval = None)

\* C6 witness: a request naming "Base" with a blob that parses has
\* panicked after the one call to Substitution::from_str.
C6_Witness ==
    /\ last.op = "assignment"
    /\ last.substitution = "Base"
    /\ AllUppercase(last.input)
    /\ last.panicked
    /\ last.calls = <<"Substitution::from_str">>

\* C7: two get_output calls with the same variant and input return the
\* same output (or both None), whichever calls came between them, whether
\* or not one of them built the rule table, and whatever order the table's
\* entries were iterated in.
C7_Deterministic ==
    \A ev \in LastEvals :
        (ref # None /\ Unwrap(ref).self = ev.self /\ Unwrap(ref).input = ev.input)
            => ev.out = Unwrap(ref).out

\* C7 witness: the remembered call built the table; a later call with the
\* same arguments, on the built table and with another iteration order,
\* returned its output.
C7_Witness ==
    \E ev \in LastEvals :
        /\ ref # None
        /\ Unwrap(ref).built
        /\ ~ev.built
        /\ Unwrap(ref).self = ev.self
        /\ Unwrap(ref).input = ev.input
        /\ ev.order # HValueOrder
        /\ ev.out # None

\* C8 as stated: get_h_value examines the categories in the declared order
\* M, P, T (so that of two categories with the same triple the earlier one
\* would be returned).
C8_AsStated ==
    \A ev \in LastEvals :
        LET sm == Unwrap(SubstMap(Unwrap(HVALMAP.value), ev.self))
        IN  \A i \in 1..Examined(sm, ev.order, 1, Abc(ev.input)) :
                ev.order[i] = HValueOrder[i]

\* C8: get_h_value examines the categories of the variant's table in the
\* hash map's iteration order, which need not be M, P, T, and returns the
\* first category whose triple equals (a, b, c); the tables being
\* injective, that is the category a scan in the order M, P, T returns.
C8_FirstMatch ==
    \A ev \in LastEvals :
        LET sm == Unwrap(SubstMap(Unwrap(HVALMAP.value), ev.self))
            n == Examined(sm, ev.order, 1, Abc(ev.input))
        IN  /\ ev.order \in IterOrders(sm)
            /\ \A i \in 1..(n - 1) : sm[ev.order[i]] # Abc(ev.input)
            /\ ev.h # None => (ev.order[n] = Unwrap(ev.h) /\ sm[Unwrap(ev.h)] = Abc(ev.input))
            /\ ev.h = None => (n = Len(ev.order) /\ sm[ev.order[n]] # Abc(ev.input))
            /\ ev.h = FirstMatch(sm, HValueOrder, 1, Abc(ev.input))

\* C8 witness: a call whose loop met T first and returned M.
C8_Witness ==
    \E ev \in LastEvals : ev.order[1] = "T" /\ ev.h = Some("M")

\* C9: once built, the rule table gives each variant an effective table
\* (Base's own, Custom2's own, Base's for Custom1) that maps all of M, P, T
\* to a triple and is injective, so at most one category matches a triple.
C9_Injective ==
    HVALMAP.state = "complete" =>
        LET map == Unwrap(HVALMAP.value)
        IN  /\ SubstMap(map, "Base") = Some(map["Base"])
            /\ SubstMap(map, "Custom2") = Some(map["Custom2"])
            /\ SubstMap(map, "Custom1") = Some(map["Base"])
            /\ \A self \in Substitution :
                  LET sm == Unwrap(SubstMap(map, self))
                  IN  /\ DOMAIN sm = HValue
                      /\ \A h1, h2 \in HValue : h1 # h2 => sm[h1] # sm[h2]
                      /\ \A abc \in Triples :
                            Cardinality({h \in HValue : sm[h] = abc}) <= 1

\* C9 witness: the table is built and a Custom1 lookup on it has returned
\* a category.
C9_Witness ==
    /\ HVALMAP.state = "complete"
    /\ \E t \in Threads :
          /\ thr[t].pc = "returned"
          /\ thr[t].self = "Custom1"
          /\ thr[t].h # None

\* C10: with threads racing on the first use, the closure is started at
\* most once, the cell is stored into at most once, it holds nothing
\* until then and the complete table from then on, and every thread past
\* get_or_init holds the complete table.
C10_InitOnce ==
    /\ initRuns <= 1
    /\ stores <= 1
    /\ (HVALMAP.state = "complete") <=> (stores = 1)
    /\ HVALMAP.state # "complete" => HVALMAP.value = None
    /\ HVALMAP.state = "complete" =>
          (IsSome(HVALMAP.value) /\ CompleteTable(Unwrap(HVALMAP.value)))
    /\ \A t \in Threads :
          thr[t].pc \in {"lookup", "returned"} =>
              /\ IsSome(thr[t].map)
              /\ CompleteTable(Unwrap(thr[t].map))
              /\ thr[t].map = HVALMAP.value

\* C10 witness: one thread is inside the closure with the table partly
\* built while another is held in get_or_init.
C10_Witness ==
    \E t1, t2 \in Threads :
        /\ t1 # t2
        /\ thr[t1].pc = "closure"
        /\ thr[t1].c.line = 90
        /\ thr[t2].pc = "get_or_init"

====
